---- MODULE Spec2Model ----
(***************************************************************************)
(* Model of the admin backend in src/server.js (src/unnamed/part_000 is an *)
(* earlier variant with the same helpers, guards and routes).              *)
(*                                                                         *)
(* Strings of the program are TLA+ strings; the JavaScript value           *)
(* `undefined` is the sentinel Undef.  A session token is a record         *)
(* [kind, key, payload]: kind tells a well-formed JWT from a malformed     *)
(* string, the empty string and undefined; key is the secret the           *)
(* signature was made with; payload is the claim set.                      *)
(***************************************************************************)
EXTENDS Integers, FiniteSets, Sequences, TLC

VARIABLES env, publicFiles, listening, now, issued, req, res,
          adminMessages, outbox, calls

vars == <<env, publicFiles, listening, now, issued, req, res,
          adminMessages, outbox, calls>>

\* What lives in the server process and its collaborators (the client-held
\* tokens `issued` and the observation `req`, `res` are not server state).
serverState == <<env, publicFiles, listening, adminMessages, outbox>>

(***************************** bounds **************************************)
MaxTime == 2
MaxIssued == 1
MaxCalls == 2

(***************************** values **************************************)
Undef == "<undefined>"

\* jwt.sign's expiresIn, "2h" by default: two ticks of the clock.
ExpiresIn == 2

Secrets == {Undef, "s1"}
Usernames == {Undef, "root"}
Passwords == {Undef, "pw"}

\* process.env as .env leaves it: the signing secret set or not, the admin
\* credentials both set or both left out.
Deployments ==
    { [JWT_SECRET |-> s, ADMIN_USERNAME |-> "root", ADMIN_PASSWORD |-> "pw"] : s \in Secrets }
      \cup { [JWT_SECRET |-> s, ADMIN_USERNAME |-> Undef, ADMIN_PASSWORD |-> Undef] : s \in Secrets }

NoClaims == [username |-> Undef, role |-> Undef, exp |-> 0]

\* The value `undefined` where a token is expected (an absent cookie).
NoToken == [kind |-> "undefined", key |-> Undef, payload |-> NoClaims]
\* The empty string "".
EmptyStr == [kind |-> "empty", key |-> Undef, payload |-> NoClaims]
\* A non-empty string that is not a well-formed JWT.
Malformed == [kind |-> "malformed", key |-> Undef, payload |-> NoClaims]

\* JavaScript truthiness of a string-or-undefined value.
Truthy(t) == t.kind \notin {"undefined", "empty"}

\* An absent Authorization header, and the empty string `|| ""` puts in its place.
\* A header string is its first seven characters (scheme) and what follows (rest).
NoHeader == [scheme |-> Undef, rest |-> NoToken]
EmptyHeader == [scheme |-> "", rest |-> EmptyStr]

NoBody == [username |-> Undef, password |-> Undef, email |-> Undef, message |-> Undef]

NoReq == [method |-> "", path |-> "", authorization |-> NoHeader,
          cookie |-> NoToken, body |-> NoBody, at |-> 0]

NoRes == [status |-> 0, body |-> "", location |-> "", file |-> "",
          cookie |-> "none", token |-> NoToken, handled |-> FALSE,
          admin |-> NoClaims]

(***************************** JWT helpers *********************************)
\* jwt.sign(payload, secret, {expiresIn}) at clock reading `at`.
jwtSign(payload, secret, at) ==
    [kind |-> "jwt", key |-> secret,
     payload |-> [username |-> payload.username, role |-> payload.role,
                  exp |-> at + ExpiresIn]]

\* jwt.verify(token, secret) at clock reading `at`: throws on a malformed
\* token, a signature made with another key, or an elapsed expiry; returns the
\* decoded payload otherwise.
jwtVerifyNoExpiry(token, secret, at) ==
    IF token.kind # "jwt" \/ token.key # secret
    THEN [threw |-> TRUE, decoded |-> NoClaims]
    ELSE [threw |-> FALSE, decoded |-> token.payload]

jwtVerify(token, secret, at) ==
    IF token.kind # "jwt" \/ token.key # secret \/ at >= token.payload.exp
    THEN [threw |-> TRUE, decoded |-> NoClaims]
    ELSE [threw |-> FALSE, decoded |-> token.payload]

signAdminToken(payload, at) ==
    IF env.JWT_SECRET = Undef
    THEN [threw |-> TRUE, token |-> NoToken]
    ELSE [threw |-> FALSE, token |-> jwtSign(payload, env.JWT_SECRET, at)]

verifyToken(token, at) ==
    IF env.JWT_SECRET = Undef
    THEN [threw |-> TRUE, decoded |-> NoClaims]
    ELSE jwtVerify(token, env.JWT_SECRET, at)

(***************************** guards **************************************)
Unauthorized == [NoRes EXCEPT !.status = 401, !.body = "Unauthorized"]
Forbidden == [NoRes EXCEPT !.status = 403, !.body = "Forbidden"]
RedirectToLogin == [NoRes EXCEPT !.status = 302, !.location = "/admin-login.html"]
\* next() was called with req.admin = decoded.
Allow(decoded) == [NoRes EXCEPT !.handled = TRUE, !.admin = decoded]

\* const token = bearerToken || cookieToken
bearerOrCookieStrict(request) ==
    LET authHeader == IF request.authorization = NoHeader
                      THEN EmptyHeader ELSE request.authorization
    IN  IF authHeader.scheme = "Bearer " THEN authHeader.rest ELSE request.cookie

bearerOrCookie(request) ==
    LET authHeader == IF request.authorization = NoHeader
                      THEN EmptyHeader ELSE request.authorization
        bearerToken == IF authHeader.scheme = "Bearer "
                       THEN authHeader.rest ELSE NoToken
        cookieToken == request.cookie
    IN  IF Truthy(bearerToken) THEN bearerToken ELSE cookieToken

checkJWTLeaky(request) ==
    LET token == bearerOrCookie(request)
        v == verifyToken(token, request.at)
    IN  IF ~Truthy(token) THEN Unauthorized
        ELSE IF v.threw
             THEN IF token.kind = "jwt" /\ token.key = env.JWT_SECRET
                  THEN [Unauthorized EXCEPT !.body = "Token expired"]
                  ELSE Unauthorized
        ELSE IF v.decoded.role # "admin" THEN Forbidden
        ELSE Allow(v.decoded)

checkJWT(request) ==
    LET token == bearerOrCookie(request)
        v == verifyToken(token, request.at)
    IN  IF ~Truthy(token) THEN Unauthorized
        ELSE IF v.threw THEN Unauthorized
        ELSE IF v.decoded.role # "admin" THEN Forbidden
        ELSE Allow(v.decoded)

checkJWTForPageJson(request) ==
    LET token == request.cookie
        v == verifyToken(token, request.at)
    IN  IF ~Truthy(token) THEN RedirectToLogin
        ELSE IF v.threw THEN RedirectToLogin
        ELSE IF v.decoded.role # "admin" THEN Forbidden
        ELSE Allow(v.decoded)

checkJWTForPage(request) ==
    LET token == request.cookie
        v == verifyToken(token, request.at)
    IN  IF ~Truthy(token) THEN RedirectToLogin
        ELSE IF v.threw THEN RedirectToLogin
        ELSE IF v.decoded.role # "admin" THEN RedirectToLogin
        ELSE Allow(v.decoded)

(***************************** middleware chain ****************************)
\* The file of the public directory a request path names, "" when none.
publicFile(path) ==
    IF path = "/admin-dashboard.html" THEN "admin-dashboard.html"
    ELSE IF path = "/admin-login.html" THEN "admin-login.html"
    ELSE ""

\* app.use(express.static(public)): a GET of an existing file is answered
\* here; anything else goes on to the routes.
serveStatic(request) ==
    IF request.method = "GET" /\ publicFile(request.path) \in publicFiles
    THEN [NoRes EXCEPT !.status = 200, !.file = publicFile(request.path)]
    ELSE NoRes

\* A response was sent (a status was written).
Sent(r) == r.status # 0

\* Express's answer when a handler throws synchronously.
ServerError == [NoRes EXCEPT !.status = 500, !.body = "Internal Server Error"]

(***************************** requests ************************************)
\* Tokens a client may present: what login issued, and what the server
\* never issued (malformed, signed with another key, signed for another role).
BadSignature ==
    [kind |-> "jwt", key |-> "k2",
     payload |-> [username |-> "root", role |-> "admin", exp |-> MaxTime + ExpiresIn + 1]]
UserRole ==
    [kind |-> "jwt", key |-> "s1",
     payload |-> [username |-> "eve", role |-> "user", exp |-> MaxTime + ExpiresIn + 1]]
ForeignTokens == {EmptyStr, Malformed, BadSignature, UserRole}

TokenPool == issued \cup ForeignTokens

Headers ==
    { NoHeader, [scheme |-> "Basic x", rest |-> Malformed] }
      \cup { [scheme |-> "Bearer ", rest |-> t] : t \in TokenPool }

Cookies == {NoToken, Malformed, UserRole} \cup issued

Request(method, path, body) ==
    { [method |-> method, path |-> path, authorization |-> h, cookie |-> c,
       body |-> body, at |-> now] : h \in Headers, c \in Cookies }

\* One POST or DELETE /api/admin/message in progress: where its handler
\* stands (pc), the fields it took from the request, whether the relay
\* accepted the mail, the status of the response once sent, the id of the
\* record it stored or set out to delete, and whether its own ref.delete()
\* took an existing record out of the collection.
IdleCall == [pc |-> "idle", email |-> Undef, message |-> Undef, by |-> Undef,
             mailed |-> FALSE, status |-> 0, id |-> 0, removed |-> FALSE]

TypeOK ==
    /\ env \in [JWT_SECRET : Secrets, ADMIN_USERNAME : Usernames, ADMIN_PASSWORD : Passwords]
    /\ listening \in BOOLEAN
    /\ now \in 0..MaxTime
    /\ Cardinality(issued) <= MaxIssued

(***************************** startup *************************************)
Init ==
    /\ env \in Deployments
    /\ publicFiles \in {{"admin-login.html"}, {"admin-login.html", "admin-dashboard.html"}}
    /\ listening = FALSE
    /\ now = 0
    /\ issued = {}
    /\ req = NoReq
    /\ res = NoRes
    /\ adminMessages = {}
    /\ outbox = {}
    /\ calls = [c \in 1..MaxCalls |-> IdleCall]

\* app.listen(PORT): the module has been evaluated to its last statement.
Listen ==
    /\ ~listening
    /\ listening' = TRUE
    /\ UNCHANGED <<env, publicFiles, now, issued, req, res, adminMessages, outbox, calls>>

Tick ==
    /\ now < MaxTime
    /\ now' = now + 1
    /\ UNCHANGED <<env, publicFiles, listening, issued, req, res, adminMessages, outbox, calls>>

(***************************** routes **************************************)
\* The middleware registered before the routes, then the route's own answer.
Through(request, routeRes) ==
    IF Sent(serveStatic(request)) THEN serveStatic(request) ELSE routeRes

BodyUsernames == {Undef, "root", "eve"}
BodyPasswords == {Undef, "pw", "bad"}

\* app.post("/api/admin/login")
login(request) ==
    LET username == request.body.username
        password == request.body.password
        signed == signAdminToken([username |-> username, role |-> "admin"], request.at)
    IN  IF username = env.ADMIN_USERNAME /\ password = env.ADMIN_PASSWORD
        THEN IF signed.threw THEN ServerError
             ELSE [NoRes EXCEPT !.status = 200, !.body = "login ok",
                                !.cookie = "set", !.token = signed.token]
        ELSE [NoRes EXCEPT !.status = 401, !.body = "bad credentials"]

Login ==
    /\ listening
    /\ \E u \in BodyUsernames, p \in BodyPasswords :
         LET request == [NoReq EXCEPT !.method = "POST", !.path = "/api/admin/login",
                                      !.body.username = u, !.body.password = p,
                                      !.at = now]
             response == Through(request, login(request))
         IN  /\ \/ ~Truthy(response.token)
                \/ response.token \in issued
                \/ Cardinality(issued) < MaxIssued
             /\ req' = request
             /\ res' = response
             /\ issued' = IF Truthy(response.token)
                          THEN issued \cup {response.token} ELSE issued
    /\ UNCHANGED <<env, publicFiles, listening, now, adminMessages, outbox, calls>>

LogoutRequests ==
    { [NoReq EXCEPT !.method = "POST", !.path = "/api/admin/logout",
                    !.cookie = c, !.at = now] : c \in {NoToken} \cup issued }

\* The variant of logout that would end sessions by changing the signing key.
LogoutRotatingSecret ==
    /\ listening
    /\ \E request \in LogoutRequests :
         /\ req' = request
         /\ res' = Through(request, [NoRes EXCEPT !.status = 200, !.body = "logout ok",
                                                  !.cookie = "cleared"])
    /\ env' = [env EXCEPT !.JWT_SECRET = IF @ = Undef THEN Undef ELSE "s2"]
    /\ UNCHANGED <<publicFiles, listening, now, issued, adminMessages, outbox, calls>>

\* app.post("/api/admin/logout")
Logout ==
    /\ listening
    /\ \E request \in LogoutRequests :
         /\ req' = request
         /\ res' = Through(request, [NoRes EXCEPT !.status = 200, !.body = "logout ok",
                                                  !.cookie = "cleared"])
    /\ UNCHANGED <<env, publicFiles, listening, now, issued, adminMessages, outbox, calls>>

\* app.get("/admin-dashboard.html", checkJWTForPage, sendFile)
adminDashboard(request) ==
    LET g == checkJWTForPage(request)
    IN  IF ~g.handled THEN g
        ELSE IF "admin-dashboard.html" \in publicFiles
             THEN [g EXCEPT !.status = 200, !.file = "admin-dashboard.html"]
             ELSE [g EXCEPT !.status = 404, !.body = "Not Found"]

GetDashboard ==
    /\ listening
    /\ \E request \in Request("GET", "/admin-dashboard.html", NoBody) :
         /\ req' = request
         /\ res' = Through(request, adminDashboard(request))
    /\ UNCHANGED <<env, publicFiles, listening, now, issued, adminMessages, outbox, calls>>

\* app.get("/api/admin/messages", checkJWT, ...): storeOk is whether the
\* store's query resolved.
adminMessagesList(request, storeOk) ==
    LET g == checkJWT(request)
    IN  IF ~g.handled THEN g
        ELSE IF storeOk THEN [g EXCEPT !.status = 200, !.body = "messages"]
        ELSE [g EXCEPT !.status = 500, !.body = "load failed"]

GetMessages ==
    /\ listening
    /\ \E request \in Request("GET", "/api/admin/messages", NoBody), storeOk \in BOOLEAN :
         /\ req' = request
         /\ res' = Through(request, adminMessagesList(request, storeOk))
    /\ UNCHANGED <<env, publicFiles, listening, now, issued, adminMessages, outbox, calls>>

(***************************** POST /api/admin/message *********************)
\* normalizeEmail: String(email || "").trim().toLowerCase(), on the
\* addresses the requests of this model carry.
normalizeEmail(email) ==
    IF email = Undef THEN ""
    ELSE IF email = " A@X " THEN "a@x"
    ELSE email

BodyEmails == {Undef, "a@x", " A@X "}
BodyTexts == {Undef, "hi"}

Respond(c, status, id) ==
    calls' = [calls EXCEPT ![c].pc = "done", ![c].status = status, ![c].id = id]

\* The handler up to its first await: the guard, the validation of the body,
\* and the call of transporter.sendMail.
PostMessageBegin(c) ==
    /\ listening
    /\ calls[c].pc = "idle"
    /\ \E e \in BodyEmails, m \in BodyTexts :
         \E request \in Request("POST", "/api/admin/message",
                                [NoBody EXCEPT !.email = e, !.message = m]) :
           LET g == Through(request, checkJWT(request))
           IN  IF ~g.handled THEN Respond(c, g.status, 0)
               ELSE IF e = Undef \/ m = Undef
                    THEN Respond(c, 400, 0)
               ELSE calls' = [calls EXCEPT ![c] =
                                [pc |-> "sendMail", email |-> e, message |-> m,
                                 by |-> IF g.admin.username = Undef
                                        THEN "admin" ELSE g.admin.username,
                                 mailed |-> FALSE, status |-> 0, id |-> 0,
                                 removed |-> FALSE]]
    /\ UNCHANGED <<env, publicFiles, listening, now, issued, req, res, adminMessages, outbox>>

\* await transporter.sendMail(...) resolves: the relay took the mail, and the
\* handler calls db.collection("adminMessages").add.
SendMailResolves(c) ==
    /\ calls[c].pc = "sendMail"
    /\ outbox' = outbox \cup {[call |-> c, to |-> calls[c].email, text |-> calls[c].message]}
    /\ calls' = [calls EXCEPT ![c].pc = "storeAdd", ![c].mailed = TRUE]
    /\ UNCHANGED <<env, publicFiles, listening, now, issued, req, res, adminMessages>>

\* await transporter.sendMail(...) rejects: the catch block answers 500.
SendMailRejects(c) ==
    /\ calls[c].pc = "sendMail"
    /\ Respond(c, 500, 0)
    /\ UNCHANGED <<env, publicFiles, listening, now, issued, req, res, adminMessages, outbox>>

\* await add(...) resolves: the record is stored under a fresh id (the number
\* of the call, each call adding at most once) and the handler answers with it.
StoreAddResolves(c) ==
    /\ calls[c].pc = "storeAdd"
    /\ adminMessages' = adminMessages \cup
         {[id |-> c, email |-> calls[c].email,
           emailNorm |-> normalizeEmail(calls[c].email),
           message |-> calls[c].message, sentAt |-> now, by |-> calls[c].by]}
    /\ Respond(c, 200, c)
    /\ UNCHANGED <<env, publicFiles, listening, now, issued, req, res, outbox>>

\* The variant that swallows the store's failure and answers as if stored.
StoreAddRejectsSwallowed(c) ==
    /\ calls[c].pc = "storeAdd"
    /\ Respond(c, 200, c)
    /\ UNCHANGED <<env, publicFiles, listening, now, issued, req, res, adminMessages, outbox>>

\* await add(...) rejects: the same catch block answers 500.
StoreAddRejects(c) ==
    /\ calls[c].pc = "storeAdd"
    /\ Respond(c, 500, 0)
    /\ UNCHANGED <<env, publicFiles, listening, now, issued, req, res, adminMessages, outbox>>

(***************************** DELETE /api/admin/message *******************)
\* The id of the body; 0 is a body without one (if (id) takes it as absent).
BodyIds == {0, 1, 2}
BodyDeleteEmails == {Undef, " A@X "}

\* The records of adminMessages under id i (none or one).
DocsWithId(i) == {d \in adminMessages : d.id = i}

\* where("emailNorm", "==", emailNorm).orderBy("sentAt", "desc").limit(1):
\* the records the query may return first.
LatestFor(emailNorm) ==
    LET hits == {d \in adminMessages : d.emailNorm = emailNorm}
    IN  {d \in hits : \A o \in hits : o.sentAt <= d.sentAt}

AnswerOnly(c, status) ==
    calls' = [calls EXCEPT ![c].pc = "done", ![c].status = status]

\* The handler up to its first await: the guard, then ref.get() when the body
\* names an id, 400 when it names neither id nor email, the query by
\* normalized email otherwise.
DeleteMessageBegin(c) ==
    /\ listening
    /\ calls[c].pc = "idle"
    /\ \E i \in BodyIds, e \in BodyDeleteEmails :
         \E request \in Request("DELETE", "/api/admin/message", NoBody) :
           LET g == Through(request, checkJWT(request))
           IN  IF ~g.handled THEN AnswerOnly(c, g.status)
               ELSE IF i # 0
                    THEN calls' = [calls EXCEPT ![c].pc = "refGet", ![c].id = i]
               ELSE IF e = Undef THEN AnswerOnly(c, 400)
               ELSE calls' = [calls EXCEPT ![c].pc = "query", ![c].email = e]
    /\ UNCHANGED <<env, publicFiles, listening, now, issued, req, res, adminMessages, outbox>>

\* await ref.get() resolves: 404 when the record does not exist at that
\* moment, ref.delete() is called otherwise.
RefGetResolves(c) ==
    /\ calls[c].pc = "refGet"
    /\ IF DocsWithId(calls[c].id) = {}
       THEN AnswerOnly(c, 404)
       ELSE calls' = [calls EXCEPT ![c].pc = "refDelete"]
    /\ UNCHANGED <<env, publicFiles, listening, now, issued, req, res, adminMessages, outbox>>

\* await the query resolves: 404 when it is empty, the delete of its first
\* record is called otherwise.
QueryResolves(c) ==
    /\ calls[c].pc = "query"
    /\ LET first == LatestFor(normalizeEmail(calls[c].email))
       IN  IF first = {}
           THEN AnswerOnly(c, 404)
           ELSE \E d \in first :
                  calls' = [calls EXCEPT ![c].pc = "refDelete", ![c].id = d.id]
    /\ UNCHANGED <<env, publicFiles, listening, now, issued, req, res, adminMessages, outbox>>

\* await delete() resolves, whether or not the record was still there (the
\* store deletes without a precondition), and the handler answers success.
RefDeleteResolves(c) ==
    /\ calls[c].pc = "refDelete"
    /\ adminMessages' = adminMessages \ DocsWithId(calls[c].id)
    /\ calls' = [calls EXCEPT ![c].pc = "done", ![c].status = 200,
                              ![c].removed = (DocsWithId(calls[c].id) # {})]
    /\ UNCHANGED <<env, publicFiles, listening, now, issued, req, res, outbox>>

\* Any of the awaited store calls rejects: the catch block answers 500.
DeleteStoreRejects(c) ==
    /\ calls[c].pc \in {"refGet", "query", "refDelete"}
    /\ AnswerOnly(c, 500)
    /\ UNCHANGED <<env, publicFiles, listening, now, issued, req, res, adminMessages, outbox>>

Next ==
    \/ Listen
    \/ Tick
    \/ Login
    \/ Logout
    \/ GetDashboard
    \/ GetMessages

Spec == Init /\ [][Next]_vars

\* The server after startup and one successful login at time 0.
InitMsg ==
    /\ env \in {d \in Deployments : d.JWT_SECRET # Undef}
    /\ publicFiles = {"admin-login.html", "admin-dashboard.html"}
    /\ listening = TRUE
    /\ now = 0
    /\ issued = {jwtSign([username |-> env.ADMIN_USERNAME, role |-> "admin"], env.JWT_SECRET, 0)}
    /\ req = NoReq
    /\ res = NoRes
    /\ adminMessages = {}
    /\ outbox = {}
    /\ calls = [c \in 1..MaxCalls |-> IdleCall]

NextMsg ==
    \/ Tick
    \/ \E c \in 1..MaxCalls : PostMessageBegin(c)
    \/ \E c \in 1..MaxCalls : SendMailResolves(c)
    \/ \E c \in 1..MaxCalls : SendMailRejects(c)
    \/ \E c \in 1..MaxCalls : StoreAddResolves(c)
    \/ \E c \in 1..MaxCalls : StoreAddRejects(c)

SpecMsg == InitMsg /\ [][NextMsg]_vars

\* A record POST /api/admin/message stored earlier under id i.
StoredMessage(i, email) ==
    [id |-> i, email |-> email, emailNorm |-> normalizeEmail(email),
     message |-> "hi", sentAt |-> 0,
     by |-> IF env.ADMIN_USERNAME = Undef THEN "admin" ELSE env.ADMIN_USERNAME]

\* The server after startup, one successful login at time 0 and one or two
\* messages sent and stored.
InitDel ==
    /\ env \in {d \in Deployments : d.JWT_SECRET # Undef}
    /\ publicFiles = {"admin-login.html", "admin-dashboard.html"}
    /\ listening = TRUE
    /\ now = 0
    /\ issued = {jwtSign([username |-> env.ADMIN_USERNAME, role |-> "admin"], env.JWT_SECRET, 0)}
    /\ req = NoReq
    /\ res = NoRes
    /\ adminMessages \in {{StoredMessage(1, "a@x")},
                          {StoredMessage(1, "a@x"), StoredMessage(2, " A@X ")}}
    /\ outbox = {}
    /\ calls = [c \in 1..MaxCalls |-> IdleCall]

NextDel ==
    \/ \E c \in 1..MaxCalls : DeleteMessageBegin(c)
    \/ \E c \in 1..MaxCalls : RefGetResolves(c)
    \/ \E c \in 1..MaxCalls : QueryResolves(c)
    \/ \E c \in 1..MaxCalls : RefDeleteResolves(c)
    \/ \E c \in 1..MaxCalls : DeleteStoreRejects(c)

SpecDel == InitDel /\ [][NextDel]_vars

(***************************** claims **************************************)
\* The observed request went to a JSON API route behind checkJWT, to the
\* protected page, or to login.
ApiReq == req.path = "/api/admin/messages"
PageReq == req.path = "/admin-dashboard.html"
LoginReq == req.path = "/api/admin/login"

\* A token's signature verifies against the configured secret; its expiry
\* had not elapsed when request r was handled.
SignatureOk(t) == t.kind = "jwt" /\ env.JWT_SECRET # Undef /\ t.key = env.JWT_SECRET
NotExpired(t, r) == r.at < t.payload.exp
ValidAdmin(t, r) == SignatureOk(t) /\ NotExpired(t, r) /\ t.payload.role = "admin"

\* C1: the API guard answers 401 Unauthorized when no token is extracted or
\* the extracted token fails verification (signature, structure, expiry), 403
\* Forbidden when it verifies with a role other than "admin", and otherwise
\* attaches the decoded claims and invokes the handler; the handler runs only
\* when signature, expiry and role are all good.
C1_ApiGuardDecision ==
    ApiReq =>
      LET t == bearerOrCookie(req)
      IN  /\ ~Truthy(t) => res = Unauthorized
          /\ (Truthy(t) /\ ~(SignatureOk(t) /\ NotExpired(t, req))) => res = Unauthorized
          /\ (SignatureOk(t) /\ NotExpired(t, req) /\ t.payload.role # "admin")
               => res = Forbidden
          /\ ValidAdmin(t, req) => (res.handled /\ res.admin = t.payload)
          /\ res.handled => ValidAdmin(t, req)

C1_Witness ==
    /\ ApiReq
    /\ res.handled
    /\ res.admin.role = "admin"
    /\ res.status = 200

\* C2 as claimed: whenever the Authorization header starts with "Bearer ",
\* the token the API guard verifies is the remainder of the header, whatever
\* the cookie holds; so a request the guard lets through carries a remainder
\* that is a token, and the claims attached are that token's.
C2_BearerAlwaysWins ==
    (ApiReq /\ req.authorization.scheme = "Bearer " /\ res.handled)
      => (Truthy(req.authorization.rest) /\ res.admin = req.authorization.rest.payload)

\* C2 as amended: a "Bearer " header with a non-empty remainder makes that
\* remainder the candidate, whatever the cookie holds; in every other case
\* (no such header, or nothing after the prefix) the candidate is the
\* admin_token cookie, and with no cookie either no token is extracted.
C2_BearerUnlessEmpty ==
    ApiReq =>
      LET h == req.authorization
          bearer == h.scheme = "Bearer " /\ Truthy(h.rest)
          t == bearerOrCookie(req)
      IN  /\ bearer => t = h.rest
          /\ ~bearer => t = req.cookie
          /\ (~bearer /\ ~Truthy(req.cookie)) => res = Unauthorized
          /\ res.handled => res.admin = (IF bearer THEN h.rest ELSE req.cookie).payload

C2_Witness ==
    /\ ApiReq
    /\ req.authorization.scheme = "Bearer "
    /\ req.authorization.rest = EmptyStr
    /\ Truthy(req.cookie)
    /\ res.handled
    /\ res.admin = req.cookie.payload

\* C3: the page guard and the API guard make the same allow/deny decision
\* for every request.
C3_SameDecision ==
    (ApiReq \/ PageReq) => (checkJWT(req).handled <=> checkJWTForPage(req).handled)

\* C4: with JWT_SECRET not configured the process fails at startup: it never
\* listens, and no request is ever answered.
C4_StartupFatal ==
    env.JWT_SECRET = Undef => (~listening /\ ~Sent(res))

\* C5: when the page guard is reached and the request's cookie is not a
\* valid admin token, the answer is the redirect to /admin-login.html and
\* nothing else: no JSON body, no 401 or 403, no handler invoked.
C5_PageGuardRedirects ==
    (PageReq /\ ~Sent(serveStatic(req)) /\ ~ValidAdmin(req.cookie, req))
      => /\ res = RedirectToLogin
         /\ res.body = "" /\ res.status \notin {401, 403} /\ ~res.handled

C5_Witness ==
    /\ PageReq
    /\ ~Sent(serveStatic(req))
    /\ SignatureOk(req.cookie) /\ req.cookie.payload.role # "admin"
    /\ res = RedirectToLogin

\* The token the API guard extracts from r is absent or fails verification.
VerificationFails(r) ==
    LET t == bearerOrCookie(r)
    IN  ~Truthy(t) \/ ~SignatureOk(t) \/ ~NotExpired(t, r)

\* C6: the API guard's answers do not tell failures apart: the observed
\* answer to a request with no token or a token failing verification equals
\* the answer to every other such request, and it is 401 Unauthorized.
C6_OpaqueFailure ==
    (ApiReq /\ VerificationFails(req)) =>
      /\ res = Unauthorized
      /\ \A r \in Request("GET", "/api/admin/messages", NoBody) :
           VerificationFails(r) => checkJWT(r) = res

C6_Witness ==
    /\ ApiReq
    /\ bearerOrCookie(req) \in issued
    /\ SignatureOk(bearerOrCookie(req))
    /\ ~NotExpired(bearerOrCookie(req), req)
    /\ res = Unauthorized

\* Both guards let a request carrying token t through at the current time.
AcceptedNow(t) ==
    LET byCookie == [NoReq EXCEPT !.method = "GET", !.cookie = t, !.at = now]
        byHeader == [NoReq EXCEPT !.method = "GET", !.at = now,
                                  !.authorization = [scheme |-> "Bearer ", rest |-> t]]
    IN  /\ checkJWT(byCookie).handled
        /\ checkJWT(byHeader).handled
        /\ checkJWTForPage(byCookie).handled

\* C7: every token a login issued is accepted by the guards until its
\* expiry, whatever logins and logouts happened since; a logout changes no
\* server-side state and only tells the client to clear the cookie.
C7_LogoutDoesNotRevoke ==
    /\ [](\A t \in issued : now < t.payload.exp => AcceptedNow(t))
    /\ [][(req'.path = "/api/admin/logout" /\ now' = now)
            => (UNCHANGED <<serverState, issued>> /\ res'.cookie = "cleared")]_vars

C7_Witness ==
    /\ req.path = "/api/admin/logout"
    /\ res.cookie = "cleared"
    /\ req.cookie \in issued
    /\ now < req.cookie.payload.exp
    /\ AcceptedNow(req.cookie)

\* The record call c stored.
RecordOf(c) ==
    { d \in adminMessages : d.id = c /\ d.email = calls[c].email
                            /\ d.message = calls[c].message }

\* C8 as claimed: once a request whose mail the relay accepted has
\* completed, a record of the message is in adminMessages.
C8_EverySentMailLogged ==
    \A c \in 1..MaxCalls :
      (calls[c].pc = "done" /\ calls[c].mailed) => RecordOf(c) # {}

\* C8 as amended: once such a request has completed, either the store call
\* succeeded, the record was added and the answer is 200 with its id, or the
\* store call failed, no record was added and the answer is 500; and a
\* record is only ever stored for a mail the relay accepted.
C8_LoggedIffStored ==
    \A c \in 1..MaxCalls :
      /\ (calls[c].pc = "done" /\ calls[c].mailed) =>
           \/ calls[c].status = 200 /\ calls[c].id = c /\ RecordOf(c) # {}
           \/ calls[c].status = 500 /\ RecordOf(c) = {}
      /\ RecordOf(c) # {} => \E m \in outbox : m.call = c /\ m.to = calls[c].email

C8_Witness ==
    \E c \in 1..MaxCalls :
      /\ calls[c].pc = "done"
      /\ calls[c].mailed
      /\ calls[c].status = 500
      /\ RecordOf(c) = {}
      /\ \E m \in outbox : m.call = c

\* C9: the dashboard file is sent only to requests the page guard allows;
\* every other GET of /admin-dashboard.html ends in the redirect.
C9_DashboardOnlyWhenAllowed ==
    PageReq =>
      /\ res.file = "admin-dashboard.html" => checkJWTForPage(req).handled
      /\ ~checkJWTForPage(req).handled => res = RedirectToLogin

\* C10: login issues a token and sets the cookie only when the body supplies
\* a username and a password and each equals the configured credential; in
\* every other case it answers 401 with no token and no cookie.
C10_LoginNeedsCredentials ==
    LoginReq =>
      LET supplied == /\ req.body.username # Undef
                      /\ req.body.password # Undef
                      /\ req.body.username = env.ADMIN_USERNAME
                      /\ req.body.password = env.ADMIN_PASSWORD
      IN  /\ (Truthy(res.token) \/ res.cookie = "set") => supplied
          /\ ~supplied => (res.status = 401 /\ ~Truthy(res.token) /\ res.cookie = "none")

\* The completed DELETE requests that named message id i in their body.
DeletesNaming(i) ==
    {c \in 1..MaxCalls : calls[c].pc = "done" /\ calls[c].email = Undef /\ calls[c].id = i}

\* C11: among the concurrent DELETE requests naming the same message id at
\* most one answers success, and a request answers success only if its own
\* delete took an existing record out of the collection.
C11_OneDeleteSucceeds ==
    \A i \in BodyIds \ {0} :
      /\ Cardinality({c \in DeletesNaming(i) : calls[c].status = 200}) <= 1
      /\ \A c \in DeletesNaming(i) : calls[c].status = 200 => calls[c].removed

====
